---- MODULE Spec2Model ----
(***************************************************************************)
(* The Tenxten strategy of src/strategies.py: a material/king evaluation,  *)
(* a depth-bounded minimax recursion memoised in a transposition table     *)
(* keyed on a hash of the position's FEN, and the root driver `search`.    *)
(*                                                                         *)
(* The rules library (draughts.Game) is an external collaborator.  It is   *)
(* modelled by a small draughts on one diagonal of NF fields: men step one *)
(* field forward and are crowned on the far end, kings fly any distance    *)
(* over free fields, nothing is jumped.  Flying kings are what lets one    *)
(* position (same placement, same side to move) be reached in two plies    *)
(* and in four plies, i.e. at two different remaining depths of one        *)
(* search.                                                                 *)
(*                                                                         *)
(* One step is one recursive_search call up to its first return or its     *)
(* loop (Call), the end of a call's loop (Return), or the start or end of  *)
(* search.  A collaborator error is modelled where search itself calls     *)
(* the collaborator inside its loop (line 176); it leaves search at once.  *)
(* Spec lists the moves of a position in one order, as a library does;     *)
(* SpecOrders lets each search list them in either order, to compare runs. *)
(* SpecEval calls evaluate_position alone on every small position.         *)
(***************************************************************************)
EXTENDS Integers, Sequences, FiniteSets, TLC

\* ------------------------------------------------------------- bounds
NF == 6             \* fields of the diagonal the games are played on
MaxSearches == 2    \* top-level search calls on one engine
MaxFailures == 1    \* collaborator errors in one behaviour
EvalFields == 4     \* fields of the positions handed to evaluate_position alone

\* -------------------------------------------------- program constants
FixedDepth == 3     \* recursive_search(new_game, 3, player_color)
KingWeight == 4     \* evaluation_dict[True]
ManWeight == 1      \* evaluation_dict[False]
WinScore == 100
LossScore == -100

Players == {"white", "black"}
Other(p) == IF p = "white" THEN "black" ELSE "white"
Orders == {"asc", "desc"}

VARIABLES
    game,                 \* the game object handed to search
    order,                \* the order in which the collaborator lists moves
    pc,                   \* "idle": no search in progress; "loop": inside search
    player_color,         \* search's local player_color
    moves,                \* search's local moves
    score_list,           \* search's local score_list
    stack,                \* the recursive_search calls in progress, innermost last
    transposition_table,  \* self.transposition_table
    counter,              \* self.counter
    searches,             \* search calls started so far
    failures,             \* collaborator errors raised so far
    seen,                 \* <<key, depth>> of the recursive_search calls of this search
    last,                 \* what the last step did
    outcome,              \* how the last ended search call ended
    prev,                 \* the runs that returned: order, table at line 184
    entry_table           \* the table search found when it was called

vars == <<game, order, pc, player_color, moves, score_list, stack,
          transposition_table, counter, searches, failures, seen, last,
          outcome, prev, entry_table>>

\* ------------------------------------------------ the board collaborator
Fields == 1..NF

Pieces == [player : Players, king : BOOLEAN]

\* position_pieces: the occupied fields and the piece on each
PositionsOn(fs) == UNION {[occ -> Pieces] : occ \in SUBSET fs}

Dir(p) == IF p = "white" THEN 1 ELSE -1

CrownField(p) == IF p = "white" THEN NF ELSE 1

Between(a, b) == IF a < b THEN (a + 1)..b ELSE b..(a - 1)

Targets(pos, f) ==
    IF pos[f].king
    THEN {t \in Fields : t # f /\ \A x \in Between(f, t) : x \notin DOMAIN pos}
    ELSE {t \in {f + Dir(pos[f].player)} : t \in Fields /\ t \notin DOMAIN pos}

MoveSet(g) ==
    {<<f, t>> : f \in {x \in DOMAIN g.pos : g.pos[x].player = g.turn}, t \in Fields}
        \cap {m \in Fields \X Fields : m[1] \in DOMAIN g.pos /\ m[2] \in Targets(g.pos, m[1])}

MoveRank(m) == m[1] * (NF + 1) + m[2]

RECURSIVE Ascending(_)
Ascending(ms) ==
    IF ms = {} THEN <<>>
    ELSE LET m == CHOOSE x \in ms : \A y \in ms : MoveRank(x) <= MoveRank(y)
         IN  <<m>> \o Ascending(ms \ {m})

Reverse(s) == [i \in 1..Len(s) |-> s[Len(s) + 1 - i]]

\* game.legal_moves()[0]
legal_moves(g, ord) ==
    IF ord = "asc" THEN Ascending(MoveSet(g)) ELSE Reverse(Ascending(MoveSet(g)))

\* game.copy().push(move)
push(g, m) ==
    LET p  == g.pos[m[1]]
        np == [p EXCEPT !.king = p.king \/ m[2] = CrownField(p.player)]
    IN  [pos  |-> [f \in (DOMAIN g.pos \ {m[1]}) \cup {m[2]} |->
                       IF f = m[2] THEN np ELSE g.pos[f]],
         turn |-> Other(g.turn),
         hist |-> Append(g.hist, m)]

\* game.has_player_won(player): the side to move cannot move and is the other side
has_player_won(g, p) == MoveSet(g) = {} /\ g.turn # p

FieldCode(pos, f) ==
    IF f \notin DOMAIN pos THEN 0
    ELSE (IF pos[f].player = "white" THEN 1 ELSE 3) + (IF pos[f].king THEN 1 ELSE 0)

\* game.get_fen(): the side to move and the placement; the moves played are not in it
get_fen(g) == <<IF g.turn = "white" THEN 1 ELSE 2>> \o [f \in Fields |-> FieldCode(g.pos, f)]

RECURSIVE HashFrom(_, _, _)
HashFrom(s, i, h) == IF i > Len(s) THEN h ELSE HashFrom(s, i + 1, h * 5 + s[i])

\* cityhash.CityHash64: one number per string.  The FENs of the bounded board
\* are far fewer than 2^64 and are taken to hash apart (a collision is the
\* spec's documented limitation, not what is checked here).
CityHash64(s) == HashFrom(s, 1, 0)

Key(g) == CityHash64(get_fen(g))

\* ------------------------------------------------------------ Tenxten
\* a store that is lost
PutAt_lost(table, key, score) == table

\* self.transposition_table[key] = score
PutAt(table, key, score) ==
    [k \in DOMAIN table \cup {key} |-> IF k = key THEN score ELSE table[k]]

EmptyTable == [k \in {} |-> 0]

RECURSIVE ScoreItems(_, _, _, _)
ScoreItems(position, todo, color, score) ==
    IF todo = {} THEN score
    ELSE LET field_number == CHOOSE f \in todo : \A x \in todo : f <= x
             piece == position[field_number]
             temp  == IF piece.player = color THEN 1 ELSE -1
             w     == IF piece.king THEN KingWeight ELSE ManWeight
         IN  ScoreItems(position, todo \ {field_number}, color, score + w * temp)

\* evaluate_position with temp taken from the wrong side
evaluate_position_swapped(position, color) ==
    ScoreItems(position, DOMAIN position, Other(color), 0)

\* Tenxten.evaluate_position: the returned score (the caller adds 1 to counter)
evaluate_position(position, color) == ScoreItems(position, DOMAIN position, color, 0)

RECURSIVE MaxFrom(_, _, _)
MaxFrom(s, i, best) ==
    IF i > Len(s) THEN best
    ELSE MaxFrom(s, i + 1, IF s[i] > best THEN s[i] ELSE best)

\* Python's max(scores), scores not empty
max(s) == MaxFrom(s, 2, s[1])

RECURSIVE MinFrom(_, _, _)
MinFrom(s, i, best) ==
    IF i > Len(s) THEN best
    ELSE MinFrom(s, i + 1, IF s[i] < best THEN s[i] ELSE best)

\* Python's min(scores), scores not empty
min(s) == MinFrom(s, 2, s[1])

RECURSIVE IndexFrom(_, _, _)
IndexFrom(s, v, i) == IF s[i] = v THEN i ELSE IndexFrom(s, v, i + 1)

\* an index lookup that returns the last place of v
index_last(s, v) == CHOOSE i \in DOMAIN s : s[i] = v /\ \A j \in DOMAIN s : s[j] = v => j <= i

\* Python's list.index(v), v in the list (1-based here)
index(s, v) == IndexFrom(s, v, 1)

\* a combination that maximises whoever is to move
Combine_max_only(turn, color, scores) == max(scores)

\* the max_score / min_score of recursive_search's last lines
Combine(turn, color, scores) == IF turn = color THEN max(scores) ELSE min(scores)

\* one recursive_search call in progress, between its first and its last line
Frame(g, depth, key, ms) ==
    [game |-> g, depth |-> depth, key |-> key, legal_moves |-> ms, scores |-> <<>>]

NoGame == [pos |-> [f \in {} |-> 0], turn |-> "white", hist |-> <<>>]

\* what a step did; table and count are the table and the counter it found
Event(kind, g, key, depth, ret, revisit, scores, table) ==
    [kind |-> kind, game |-> g, key |-> key, depth |-> depth, ret |-> ret,
     revisit |-> revisit, scores |-> scores, table |-> table, count |-> counter]

Quiet(kind) == Event(kind, NoGame, 0, 0, 0, FALSE, <<>>, EmptyTable)

NoOutcome == [kind |-> "none", move |-> <<>>, moves |-> <<>>, scores |-> <<>>]

\* the games search is called with: three pieces, a king of each side among
\* them, no man on the field that crowns it, either side to move
Roots ==
    {g \in [pos : PositionsOn(Fields), turn : Players, hist : {<<>>}] :
        /\ Cardinality(DOMAIN g.pos) = 3
        /\ \A p \in Players : \E f \in DOMAIN g.pos : g.pos[f] = [player |-> p, king |-> TRUE]
        /\ \A f \in DOMAIN g.pos : ~g.pos[f].king => f # CrownField(g.pos[f].player)}

Init ==
    /\ game \in Roots
    /\ order = "asc"
    /\ pc = "idle"
    /\ player_color = game.turn
    /\ moves = <<>>
    /\ score_list = <<>>
    /\ stack = <<>>
    /\ transposition_table = EmptyTable
    /\ counter = 0
    /\ searches = 0
    /\ failures = 0
    /\ seen = {}
    /\ last = Quiet("none")
    /\ outcome = NoOutcome
    /\ prev = <<>>
    /\ entry_table = EmptyTable

\* search, lines 172-174: the engine is asked for a move of `game`, whose
\* moves the collaborator lists in order o
SearchIn(o) ==
    /\ pc = "idle"
    /\ searches < MaxSearches
    /\ order' = o
    /\ moves' = legal_moves(game, o)
    /\ pc' = "loop"
    /\ player_color' = game.turn
    /\ score_list' = <<>>
    /\ stack' = <<>>
    /\ searches' = searches + 1
    /\ seen' = {}
    /\ last' = Event("start", game, 0, 0, 0, FALSE, <<>>, transposition_table)
    /\ entry_table' = transposition_table
    /\ UNCHANGED <<game, transposition_table, counter, failures, outcome, prev>>

\* a recursive_search call returns `ret` to the loop that made it
Deliver(stk, ret) ==
    IF stk = <<>>
    THEN /\ score_list' = Append(score_list, ret)
         /\ stack' = stk
    ELSE /\ score_list' = score_list
         /\ stack' = [stk EXCEPT ![Len(stk)].scores = Append(@, ret)]

\* the loop of search (lines 175-177) or of recursive_search (157-159) makes its
\* next call, and the call runs lines 140-155
Call ==
    /\ pc = "loop"
    /\ LET root     == stack = <<>>
           top      == stack[Len(stack)]
           done     == IF root THEN Len(score_list) ELSE Len(top.scores)
           ms       == IF root THEN moves ELSE top.legal_moves
           from     == IF root THEN game ELSE top.game
           depth    == IF root THEN FixedDepth ELSE top.depth - 1
       IN  /\ done < Len(ms)
           /\ LET new_game    == push(from, ms[done + 1])
                  key         == Key(new_game)
                  revisit     == <<key, depth>> \in seen
                  legal       == legal_moves(new_game, order)
              IN  /\ seen' = seen \cup {<<key, depth>>}
                  /\ IF key \in DOMAIN transposition_table
                     THEN /\ Deliver(stack, transposition_table[key])
                          /\ last' = Event("hit", new_game, key, depth,
                                           transposition_table[key], revisit, <<>>,
                                           transposition_table)
                          /\ UNCHANGED <<transposition_table, counter>>
                     ELSE IF depth = 0
                     THEN LET score == evaluate_position(new_game.pos, player_color)
                          IN  /\ counter' = counter + 1
                              /\ transposition_table' = PutAt(transposition_table, key, score)
                              /\ Deliver(stack, score)
                              /\ last' = Event("leaf", new_game, key, depth, score,
                                               revisit, <<>>, transposition_table)
                     ELSE IF legal = <<>>
                     THEN LET score == IF has_player_won(new_game, player_color)
                                       THEN WinScore ELSE LossScore
                          IN  /\ Deliver(stack, score)
                              /\ last' = Event("terminal", new_game, key, depth, score,
                                               revisit, <<>>, transposition_table)
                              /\ UNCHANGED <<transposition_table, counter>>
                     ELSE /\ stack' = Append(stack, Frame(new_game, depth, key, legal))
                          /\ last' = Event("enter", new_game, key, depth, 0, revisit,
                                           <<>>, transposition_table)
                          /\ UNCHANGED <<score_list, transposition_table, counter>>
    /\ UNCHANGED <<game, order, pc, player_color, moves, searches, failures,
                   outcome, prev, entry_table>>

\* recursive_search, lines 161-168: the loop is over, the call stores and returns
Return ==
    /\ pc = "loop"
    /\ stack # <<>>
    /\ LET top   == stack[Len(stack)]
           score == Combine(top.game.turn, player_color, top.scores)
       IN  /\ Len(top.scores) = Len(top.legal_moves)
           /\ transposition_table' = PutAt(transposition_table, top.key, score)
           /\ Deliver(SubSeq(stack, 1, Len(stack) - 1), score)
           /\ last' = Event("combine", top.game, top.key, top.depth, score, FALSE,
                            top.scores, transposition_table)
    /\ UNCHANGED <<game, order, pc, player_color, moves, counter, searches,
                   failures, seen, outcome, prev, entry_table>>

\* search, lines 180-188: the loop is over
Finish ==
    /\ pc = "loop"
    /\ stack = <<>>
    /\ Len(score_list) = Len(moves)
    /\ pc' = "idle"
    /\ IF score_list = <<>>
       THEN \* max([]) raises ValueError; nothing below line 180 runs
            /\ outcome' = [kind |-> "ValueError", move |-> <<>>, moves |-> moves,
                           scores |-> score_list]
            /\ last' = Quiet("error")
            /\ UNCHANGED <<transposition_table, counter, prev>>
       ELSE LET best_move_index == index(score_list, max(score_list))
                best_move       == moves[best_move_index]
            IN  /\ outcome' = [kind |-> "move", move |-> best_move, moves |-> moves,
                               scores |-> score_list]
                /\ last' = Event("finish", game, 0, 0, 0, FALSE, score_list,
                                 transposition_table)
                /\ prev' = Append(prev, [order |-> order, table |-> transposition_table,
                                         clean |-> entry_table = EmptyTable])
                /\ counter' = 0
                /\ transposition_table' = EmptyTable
    /\ UNCHANGED <<game, order, player_color, moves, score_list, stack, searches,
                   failures, seen, entry_table>>

\* the collaborator raises in game.copy().push(move) of line 176: the error
\* leaves search through its caller, nothing else of search runs
Abort ==
    /\ pc = "loop"
    /\ stack = <<>>
    /\ Len(score_list) < Len(moves)
    /\ failures < MaxFailures
    /\ failures' = failures + 1
    /\ pc' = "idle"
    /\ outcome' = [kind |-> "CollaboratorError", move |-> <<>>, moves |-> moves,
                   scores |-> score_list]
    /\ last' = Quiet("abort")
    /\ UNCHANGED <<game, order, player_color, moves, score_list, stack,
                   transposition_table, counter, searches, seen, prev, entry_table>>

\* the library lists the moves of a position in one order, always
Search == SearchIn("asc")

Next == Search \/ Call \/ Return \/ Finish \/ Abort

Spec == Init /\ [][Next]_vars

\* Runs that differ in the order the moves are listed in: what a run stores
\* is compared with what the run before it stored.
SearchReordered == \E o \in Orders : SearchIn(o)

NextOrders == SearchReordered \/ Call \/ Return \/ Finish

SpecOrders == Init /\ [][NextOrders]_vars

\* ------------------------------------------- evaluate_position on its own
EvalGames == [pos : PositionsOn(1..EvalFields), turn : Players, hist : {<<>>}]

EvalInit ==
    /\ game \in EvalGames
    /\ order = "asc"
    /\ pc = "idle"
    /\ player_color = game.turn
    /\ moves = <<>>
    /\ score_list = <<>>
    /\ stack = <<>>
    /\ transposition_table = EmptyTable
    /\ counter = 0
    /\ searches = 0
    /\ failures = 0
    /\ seen = {}
    /\ last = Quiet("none")
    /\ outcome = NoOutcome
    /\ prev = <<>>
    /\ entry_table = EmptyTable

\* evaluate_position(position, player_color), lines 127-137
Evaluate ==
    /\ last.kind = "none"
    /\ \E color \in Players :
          /\ player_color' = color
          /\ last' = Event("eval", game, 0, 0, evaluate_position(game.pos, color),
                           FALSE, <<>>, transposition_table)
    /\ counter' = counter + 1
    /\ UNCHANGED <<game, order, pc, moves, score_list, stack, transposition_table,
                   searches, failures, seen, outcome, prev, entry_table>>

EvalNext == Evaluate

SpecEval == EvalInit /\ [][EvalNext]_vars

\* ------------------------------------------------------------- claims
Range(s) == {s[i] : i \in DOMAIN s}

Greatest(S) == CHOOSE x \in S : \A y \in S : y <= x

Least(S) == CHOOSE x \in S : \A y \in S : x <= y

Count(pos, p, k) ==
    Cardinality({f \in DOMAIN pos : pos[f].player = p /\ pos[f].king = k})

\* the sum the spec states: +4 / +1 for the perspective's kings / men, -4 / -1
\* for the other side's
Material(pos, p) ==
    4 * Count(pos, p, TRUE) + Count(pos, p, FALSE)
        - 4 * Count(pos, Other(p), TRUE) - Count(pos, Other(p), FALSE)

\* minimax with no table: the evaluation at depth 0, +100/-100 where the side
\* to move has no move, the max or min of the successors otherwise
RECURSIVE PlainMinimax(_, _, _)
PlainMinimax(g, depth, color) ==
    IF depth = 0 THEN Material(g.pos, color)
    ELSE IF MoveSet(g) = {} THEN (IF has_player_won(g, color) THEN 100 ELSE -100)
    ELSE LET below == {PlainMinimax(push(g, m), depth - 1, color) : m \in MoveSet(g)}
         IN  IF g.turn = color THEN Greatest(below) ELSE Least(below)

PlainScores(g, ms) ==
    [i \in 1..Len(ms) |-> PlainMinimax(push(g, ms[i]), 3, g.turn)]

FirstBest(scores) ==
    CHOOSE i \in DOMAIN scores :
        /\ \A j \in DOMAIN scores : scores[j] <= scores[i]
        /\ \A j \in 1..(i - 1) : scores[j] < scores[i]

Returned == last.kind \in {"hit", "leaf", "terminal", "combine"}

\* C1: a search that starts with an empty table returns the move plain
\* depth-3 minimax (no transposition table, first maximum on ties) returns.
C1_SearchIsPlainMinimax ==
    (last.kind = "finish" /\ entry_table = EmptyTable) =>
        outcome.move = outcome.moves[FirstBest(PlainScores(game, outcome.moves))]

\* C1, its second half: the table changes the score of no root move.
C1_RootScoresArePlain ==
    (last.kind = "finish" /\ entry_table = EmptyTable) =>
        outcome.scores = PlainScores(game, outcome.moves)

\* C2: evaluate_position returns +4 per king and +1 per man of the
\* perspective, -4 per king and -1 per man of the other side, and 0 for a
\* position with no pieces.
C2_EvaluationIsMaterial ==
    last.kind = "eval" =>
        /\ last.ret = Material(game.pos, player_color)
        /\ DOMAIN game.pos = {} => last.ret = 0
        /\ counter = 1

C2_Witness ==
    /\ last.kind = "eval"
    /\ Count(game.pos, player_color, TRUE) = 1
    /\ Count(game.pos, player_color, FALSE) = 1
    /\ Count(game.pos, Other(player_color), TRUE) = 2
    /\ last.ret = -3

\* C3: a recursive_search call with depth 0 returns the evaluation of its
\* position, whatever the table holds (the search having started with an
\* empty table).
C3_DepthZeroReturnsEvaluation ==
    (Returned /\ last.depth = 0 /\ entry_table = EmptyTable) =>
        last.ret = evaluate_position(last.game.pos, player_color)

\* C4: a recursive_search call (here with depth > 0, in a search that started
\* with an empty table) on a state with no legal move returns 100 when
\* has_player_won(perspective) and -100 when not.
C4_NoMoveReturnsTerminalScore ==
    (Returned /\ last.depth > 0 /\ MoveSet(last.game) = {}
        /\ entry_table = EmptyTable) =>
        last.ret = IF has_player_won(last.game, player_color) THEN 100 ELSE -100

Called == last.kind \in {"hit", "leaf", "terminal", "enter"}

\* C5 as claimed: the second recursive_search call of one search on a position
\* at the same remaining depth is a cache hit.
C5_SecondCallIsHit == (Called /\ last.revisit) => last.kind = "hit"

\* C5 as amended: the second recursive_search call of one search on a
\* position at the same remaining depth is a cache hit (the stored score
\* returned, no frame opened, counter and table untouched) when the position
\* has a legal move or the depth is 0; on a position with no legal move at
\* depth > 0 it is a hit or computes +100/-100 again, and evaluates nothing.
C5_SecondCallIsHitWhereStored ==
    (Called /\ last.revisit) =>
        /\ counter = last.count
        /\ transposition_table = last.table
        /\ IF last.depth = 0 \/ MoveSet(last.game) # {}
           THEN /\ last.kind = "hit"
                /\ last.key \in DOMAIN last.table
                /\ last.ret = last.table[last.key]
           ELSE last.kind \in {"hit", "terminal"}

C5_Witness ==
    /\ last.kind = "hit"
    /\ last.revisit
    /\ last.depth > 0
    /\ MoveSet(last.game) # {}
    /\ entry_table = EmptyTable

\* C6: search returns the root move whose recursive_search score (depth 3,
\* perspective the side to move at the root) is maximal, the first such move
\* in the enumeration order on ties.
C6_SearchReturnsFirstMaximum ==
    /\ stack # <<>> => stack[1].depth = 3
    /\ last.kind = "start" => player_color = game.turn /\ moves = legal_moves(game, order)
    /\ (Returned /\ stack = <<>>) =>
           score_list[Len(score_list)] = last.ret /\ last.depth = 3
    /\ last.kind = "finish" =>
           /\ Len(outcome.scores) = Len(outcome.moves)
           /\ outcome.scores = score_list
           /\ \E i \in DOMAIN outcome.moves :
                 /\ outcome.move = outcome.moves[i]
                 /\ \A j \in DOMAIN outcome.scores : outcome.scores[j] <= outcome.scores[i]
                 /\ \A j \in 1..(i - 1) : outcome.scores[j] < outcome.scores[i]

C6_Witness ==
    /\ last.kind = "finish"
    /\ \E i, j \in DOMAIN outcome.moves :
          /\ 1 < i /\ i < j
          /\ outcome.move = outcome.moves[i]
          /\ outcome.scores[j] = outcome.scores[i]
          /\ outcome.scores[1] < outcome.scores[i]

\* C7: search on a state with no legal move at the root ends in a
\* NoLegalMoveError.
C7_EmptyRootIsNoLegalMoveError ==
    (pc = "idle" /\ searches > 0 /\ MoveSet(game) = {}) =>
        outcome.kind = "NoLegalMoveError"

\* C8: whenever no search call is in progress the transposition table is
\* empty and the counter is 0.
C8_IdleTableIsEmpty ==
    pc = "idle" => transposition_table = EmptyTable /\ counter = 0

\* C9: a recursive_search call that is no cache hit, has depth > 0 and has a
\* legal move returns the maximum of its successors' scores when the side to
\* move is the perspective and the minimum otherwise, and the table holds
\* that score under the state's key when it returns.
C9_CombineIsMinimax ==
    /\ (Returned /\ stack # <<>>) =>
           LET top == stack[Len(stack)]
           IN  /\ top.scores[Len(top.scores)] = last.ret
               /\ last.depth = top.depth - 1
               /\ last.game.hist = Append(top.game.hist, top.legal_moves[Len(top.scores)])
    /\ last.kind = "combine" =>
           /\ last.depth > 0
           /\ last.key = Key(last.game)
           /\ last.key \notin DOMAIN last.table
           /\ Len(last.scores) = Cardinality(MoveSet(last.game))
           /\ Len(last.scores) > 0
           /\ last.ret = IF last.game.turn = player_color
                         THEN Greatest(Range(last.scores))
                         ELSE Least(Range(last.scores))
           /\ last.key \in DOMAIN transposition_table
           /\ transposition_table[last.key] = last.ret

C9_Witness ==
    /\ last.kind = "combine"
    /\ last.game.turn # player_color
    /\ Cardinality(Range(last.scores)) > 1
    /\ last.ret < last.scores[1]

\* C10: two runs over one root state, each started with an empty table, that
\* list the moves in different orders store the same score for every key both
\* store.
C10_StoredScoreDependsOnKeyAlone ==
    last.kind = "finish" =>
        \A i, j \in DOMAIN prev :
            (prev[i].clean /\ prev[j].clean) =>
                \A k \in DOMAIN prev[i].table \cap DOMAIN prev[j].table :
                    prev[i].table[k] = prev[j].table[k]

====
